---- MODULE Spec2Model ----
(***************************************************************************)
(* Construction of the fileconsumer Manager from a Config                  *)
(* (pkg/stanza/fileconsumer/config.go): Config.validate, Config.Build,      *)
(* Config.BuildWithSplitFunc and Config.buildManager, followed by the poll  *)
(* cycle of the Manager that construction returned.                         *)
(*                                                                          *)
(* helper.ByteSize is int64 and the int(...) conversions of buildManager    *)
(* are value preserving on the 64-bit targets modelled here.  The logger    *)
(* argument is taken to be non-nil.                                         *)
(***************************************************************************)
EXTENDS Integers, Sequences, FiniteSets, TLC

\* ---------------------------------------------------------------- bounds
MaxInclude == 2
MaxExclude == 1
MaxConcurrent == 4
NumFiles == 3

\* ------------------------------------------------------------- constants
\* fingerprint.go: const MinFingerprintSize = 16 (referenced at config.go:180)
MinFingerprintSize == 16

\* the nil error / nil pointer
NIL == "nil"

\* ------------------------------------------------------ the input domains
\* Glob patterns: one that doublestar parses, one that it rejects.
GoodPattern == "*.log"
BadPattern == "[bad"
Patterns == {GoodPattern, BadPattern}

SeqsUpTo(S, n) == UNION {[1..k -> S] : k \in 0..n}

StartAtValues == {"beginning", "end", "middle"}
LogSizes == {-1, 0, 1}
FingerprintSizes == {MinFingerprintSize - 1, MinFingerprintSize}

\* Config (config.go:61-74).  EncodingOK / MultilineOK stand for the
\* contents of Splitter.EncodingConfig and Splitter.Multiline: whether
\* each can be built.
Configs ==
    [Include : SeqsUpTo(Patterns, MaxInclude),
     Exclude : SeqsUpTo(Patterns, MaxExclude),
     StartAt : StartAtValues,
     FingerprintSize : FingerprintSizes,
     MaxLogSize : LogSizes,
     MaxConcurrentFiles : 0..MaxConcurrent,
     DeleteAfterRead : BOOLEAN,
     EncodingOK : BOOLEAN,
     MultilineOK : BOOLEAN]

\* the configurations the poll cycle is explored from: every value of
\* max_concurrent_files, start_at and delete_after_read, the rest valid
PollConfigs ==
    {cfg \in Configs :
        /\ cfg.Include = <<GoodPattern>>
        /\ cfg.Exclude = <<>>
        /\ cfg.FingerprintSize = MinFingerprintSize
        /\ cfg.MaxLogSize = 1
        /\ cfg.EncodingOK
        /\ cfg.MultilineOK}

Files == 1..NumFiles

VARIABLES
    c,          \* the Config the build methods are called on
    gate,       \* featuregate registry: is filelog.allowFileDeletion enabled
    pc,         \* "config" (no call yet), "failed", "built"
    call,       \* the arguments of the construction call, and the gate at that time
    result,     \* what the call returned: [mgr, err]
    phase,      \* poll tick: "sleep", "match", "read"
    matched,    \* files the Finder returned this tick
    pending,    \* matched files not yet handed to a batch
    open,       \* files whose handle a worker of the current batch holds open
    knownFiles, \* Manager.knownFiles
    seenPaths   \* Manager.seenPaths

vars == <<c, gate, pc, call, result, phase, matched, pending, open, knownFiles, seenPaths>>

\* ------------------------------------------------------------ pure parts

\* Go's integer division truncates toward zero.
GoDiv(a, b) == IF a >= 0 THEN a \div b ELSE -((-a) \div b)

\* doublestar.PathMatch(pattern, "matchstring") returns an error
PathMatchErr(p) == p = BadPattern

\* c.Splitter.EncodingConfig.Build()
EncodingBuildErr(cfg) == IF cfg.EncodingOK THEN NIL ELSE "encoding"

\* validate without the delete_after_read / start_at: end check
validate_NoDeleteWithEndCheck(cfg) ==
    IF Len(cfg.Include) = 0 THEN "include_empty"
    ELSE IF \E i \in 1..Len(cfg.Include) : PathMatchErr(cfg.Include[i]) THEN "include_glob"
    ELSE IF \E i \in 1..Len(cfg.Exclude) : PathMatchErr(cfg.Exclude[i]) THEN "exclude_glob"
    ELSE IF cfg.MaxLogSize <= 0 THEN "max_log_size"
    ELSE IF cfg.MaxConcurrentFiles <= 1 THEN "max_concurrent_files"
    ELSE IF cfg.FingerprintSize < MinFingerprintSize THEN "fingerprint_size"
    ELSE EncodingBuildErr(cfg)

\* validate with the fingerprint floor off by one
validate_FingerprintOffByOne(cfg) ==
    IF Len(cfg.Include) = 0 THEN "include_empty"
    ELSE IF \E i \in 1..Len(cfg.Include) : PathMatchErr(cfg.Include[i]) THEN "include_glob"
    ELSE IF \E i \in 1..Len(cfg.Exclude) : PathMatchErr(cfg.Exclude[i]) THEN "exclude_glob"
    ELSE IF cfg.MaxLogSize <= 0 THEN "max_log_size"
    ELSE IF cfg.MaxConcurrentFiles <= 1 THEN "max_concurrent_files"
    ELSE IF cfg.FingerprintSize < MinFingerprintSize - 1 THEN "fingerprint_size"
    ELSE IF cfg.DeleteAfterRead /\ cfg.StartAt = "end" THEN "delete_after_read_start_at_end"
    ELSE EncodingBuildErr(cfg)

\* validate that parses only the first include pattern
validate_FirstIncludeOnly(cfg) ==
    IF Len(cfg.Include) = 0 THEN "include_empty"
    ELSE IF PathMatchErr(cfg.Include[1]) THEN "include_glob"
    ELSE IF \E i \in 1..Len(cfg.Exclude) : PathMatchErr(cfg.Exclude[i]) THEN "exclude_glob"
    ELSE IF cfg.MaxLogSize <= 0 THEN "max_log_size"
    ELSE IF cfg.MaxConcurrentFiles <= 1 THEN "max_concurrent_files"
    ELSE IF cfg.FingerprintSize < MinFingerprintSize THEN "fingerprint_size"
    ELSE IF cfg.DeleteAfterRead /\ cfg.StartAt = "end" THEN "delete_after_read_start_at_end"
    ELSE EncodingBuildErr(cfg)

\* validate that rejects max_concurrent_files = 2 as well
validate_ConcurrentOffByOne(cfg) ==
    IF Len(cfg.Include) = 0 THEN "include_empty"
    ELSE IF \E i \in 1..Len(cfg.Include) : PathMatchErr(cfg.Include[i]) THEN "include_glob"
    ELSE IF \E i \in 1..Len(cfg.Exclude) : PathMatchErr(cfg.Exclude[i]) THEN "exclude_glob"
    ELSE IF cfg.MaxLogSize <= 0 THEN "max_log_size"
    ELSE IF cfg.MaxConcurrentFiles <= 2 THEN "max_concurrent_files"
    ELSE IF cfg.FingerprintSize < MinFingerprintSize THEN "fingerprint_size"
    ELSE IF cfg.DeleteAfterRead /\ cfg.StartAt = "end" THEN "delete_after_read_start_at_end"
    ELSE EncodingBuildErr(cfg)

validate(cfg) ==
    IF Len(cfg.Include) = 0 THEN "include_empty"
    ELSE IF \E i \in 1..Len(cfg.Include) : PathMatchErr(cfg.Include[i]) THEN "include_glob"
    ELSE IF \E i \in 1..Len(cfg.Exclude) : PathMatchErr(cfg.Exclude[i]) THEN "exclude_glob"
    ELSE IF cfg.MaxLogSize <= 0 THEN "max_log_size"
    ELSE IF cfg.MaxConcurrentFiles <= 1 THEN "max_concurrent_files"
    ELSE IF cfg.FingerprintSize < MinFingerprintSize THEN "fingerprint_size"
    ELSE IF cfg.DeleteAfterRead /\ cfg.StartAt = "end" THEN "delete_after_read_start_at_end"
    ELSE EncodingBuildErr(cfg)

\* newMultilineSplitterFactory(EncodingConfig, Flusher, Multiline).Build(maxLogSize)
multilineSplitterFactoryBuild(cfg) ==
    IF cfg.EncodingOK /\ cfg.MultilineOK THEN NIL ELSE "splitter"

\* newCustomizeSplitterFactory(Flusher, splitFunc).Build(maxLogSize); the
\* outcome is an input of the call, it does not read Splitter.Multiline
customizeSplitterFactoryBuild(customOK) ==
    IF customOK THEN NIL ELSE "splitter"

NilManager ==
    [isNil |-> TRUE, fingerprintSize |-> 0, maxLogSize |-> 0, fromBeginning |-> FALSE,
     splitterFactory |-> NIL, include |-> <<>>, exclude |-> <<>>, maxBatchFiles |-> 0,
     deleteAfterRead |-> FALSE, knownFiles |-> <<>>, seenPaths |-> {}]

\* maxBatchFiles without the halving
maxBatchFilesOf_NotHalved(cfg) == cfg.MaxConcurrentFiles

\* maxBatchFiles rounding up
maxBatchFilesOf_RoundUp(cfg) == GoDiv(cfg.MaxConcurrentFiles + 1, 2)

\* maxBatchFiles: c.MaxConcurrentFiles / 2
maxBatchFilesOf(cfg) == GoDiv(cfg.MaxConcurrentFiles, 2)

\* the switch with a default that falls through to "end"
startAtSwitch_DefaultIsEnd(startAt) ==
    CASE startAt = "beginning" -> [fromBeginning |-> TRUE, err |-> NIL]
      [] OTHER -> [fromBeginning |-> FALSE, err |-> NIL]

\* the switch on c.StartAt: startAtBeginning and the error of the default case
startAtSwitch(startAt) ==
    CASE startAt = "beginning" -> [fromBeginning |-> TRUE, err |-> NIL]
      [] startAt = "end" -> [fromBeginning |-> FALSE, err |-> NIL]
      [] OTHER -> [fromBeginning |-> FALSE, err |-> "start_at"]

\* buildManager that returns the Manager together with the start_at error
buildManager_ManagerWithError(cfg, emit, factory) ==
    IF ~emit THEN [mgr |-> NilManager, err |-> "emit"]
    ELSE [mgr |-> [isNil |-> FALSE,
                   fingerprintSize |-> cfg.FingerprintSize,
                   maxLogSize |-> cfg.MaxLogSize,
                   fromBeginning |-> startAtSwitch(cfg.StartAt).fromBeginning,
                   splitterFactory |-> factory,
                   include |-> cfg.Include,
                   exclude |-> cfg.Exclude,
                   maxBatchFiles |-> maxBatchFilesOf(cfg),
                   deleteAfterRead |-> cfg.DeleteAfterRead,
                   knownFiles |-> <<>>,
                   seenPaths |-> {}],
          err |-> startAtSwitch(cfg.StartAt).err]

buildManager(cfg, emit, factory) ==
    IF ~emit THEN [mgr |-> NilManager, err |-> "emit"]
    ELSE IF startAtSwitch(cfg.StartAt).err # NIL
         THEN [mgr |-> NilManager, err |-> startAtSwitch(cfg.StartAt).err]
    ELSE [mgr |-> [isNil |-> FALSE,
                   fingerprintSize |-> cfg.FingerprintSize,
                   maxLogSize |-> cfg.MaxLogSize,
                   fromBeginning |-> startAtSwitch(cfg.StartAt).fromBeginning,
                   splitterFactory |-> factory,
                   include |-> cfg.Include,
                   exclude |-> cfg.Exclude,
                   maxBatchFiles |-> maxBatchFilesOf(cfg),
                   deleteAfterRead |-> cfg.DeleteAfterRead,
                   knownFiles |-> <<>>,
                   seenPaths |-> {}],
          err |-> NIL]

\* Build that validates before it reads the feature gate
BuildResult_ValidateBeforeGate(cfg, g, emit) ==
    IF validate(cfg) # NIL THEN [mgr |-> NilManager, err |-> validate(cfg)]
    ELSE IF cfg.DeleteAfterRead /\ ~g THEN [mgr |-> NilManager, err |-> "gate"]
    ELSE IF multilineSplitterFactoryBuild(cfg) # NIL
         THEN [mgr |-> NilManager, err |-> multilineSplitterFactoryBuild(cfg)]
    ELSE buildManager(cfg, emit, "multiline")

\* Config.Build(logger, emit), with the feature gate as read by the call
BuildResult(cfg, g, emit) ==
    IF cfg.DeleteAfterRead /\ ~g THEN [mgr |-> NilManager, err |-> "gate"]
    ELSE IF validate(cfg) # NIL THEN [mgr |-> NilManager, err |-> validate(cfg)]
    ELSE IF multilineSplitterFactoryBuild(cfg) # NIL
         THEN [mgr |-> NilManager, err |-> multilineSplitterFactoryBuild(cfg)]
    ELSE buildManager(cfg, emit, "multiline")

\* Config.BuildWithSplitFunc(logger, emit, splitFunc)
BuildWithSplitFuncResult(cfg, emit, splitFunc, customOK) ==
    IF validate(cfg) # NIL THEN [mgr |-> NilManager, err |-> validate(cfg)]
    ELSE IF ~splitFunc THEN [mgr |-> NilManager, err |-> "split_func"]
    ELSE IF customizeSplitterFactoryBuild(customOK) # NIL
         THEN [mgr |-> NilManager, err |-> customizeSplitterFactoryBuild(customOK)]
    ELSE buildManager(cfg, emit, "customize")

\* ------------------------------------------------------------------ Init
NoCall == [entry |-> "none", cfg |-> [Include |-> <<>>, Exclude |-> <<>>, StartAt |-> "end",
            FingerprintSize |-> 0, MaxLogSize |-> 0, MaxConcurrentFiles |-> 0,
            DeleteAfterRead |-> FALSE, EncodingOK |-> FALSE, MultilineOK |-> FALSE],
           gate |-> FALSE, emit |-> FALSE, splitFunc |-> FALSE, customOK |-> FALSE]

InitFrom(configs) ==
    /\ c \in configs
    /\ gate \in BOOLEAN
    /\ pc = "config"
    /\ call = NoCall
    /\ result = [mgr |-> NilManager, err |-> NIL]
    /\ phase = "sleep"
    /\ matched = {}
    /\ pending = {}
    /\ open = {}
    /\ knownFiles = <<>>
    /\ seenPaths = {}

Init == InitFrom(Configs)

PollInit == InitFrom(PollConfigs)

pollVars == <<phase, matched, pending, open>>

Returned(r) ==
    /\ result' = r
    /\ pc' = IF r.mgr.isNil THEN "failed" ELSE "built"
    /\ knownFiles' = r.mgr.knownFiles
    /\ seenPaths' = r.mgr.seenPaths
    /\ UNCHANGED <<c, gate, pollVars>>

\* featuregate registry: the gate is switched before construction
SetGate ==
    /\ pc = "config"
    /\ gate' = ~gate
    /\ UNCHANGED <<c, pc, call, result, pollVars, knownFiles, seenPaths>>

Build ==
    /\ pc = "config"
    /\ \E emit \in BOOLEAN :
        /\ call' = [entry |-> "Build", cfg |-> c, gate |-> gate, emit |-> emit,
                    splitFunc |-> FALSE, customOK |-> FALSE]
        /\ Returned(BuildResult(c, gate, emit))

BuildWithSplitFunc ==
    /\ pc = "config"
    /\ \E emit \in BOOLEAN, splitFunc \in BOOLEAN, customOK \in BOOLEAN :
        /\ (~splitFunc => ~customOK)
        /\ call' = [entry |-> "BuildWithSplitFunc", cfg |-> c, gate |-> gate, emit |-> emit,
                    splitFunc |-> splitFunc, customOK |-> customOK]
        /\ Returned(BuildWithSplitFuncResult(c, emit, splitFunc, customOK))

\* ------------------------------------------------- the Manager's poll tick
\* Discover -> Match -> Batch-Read (sub-batches of maxBatchFiles) -> Evict

Min(a, b) == IF a <= b THEN a ELSE b

RECURSIVE SetToSeq(_)
SetToSeq(S) ==
    IF S = {} THEN <<>>
    ELSE LET x == CHOOSE y \in S : \A z \in S : y <= z
         IN <<x>> \o SetToSeq(S \ {x})

Range(s) == {s[i] : i \in 1..Len(s)}

\* Discover: the Finder returns the files that match now
Discover ==
    /\ pc = "built"
    /\ phase = "sleep"
    /\ \E found \in SUBSET Files : matched' = found
    /\ phase' = "match"
    /\ UNCHANGED <<c, gate, pc, call, result, pending, open, knownFiles, seenPaths>>

\* Match: a Reader for every discovered file; unknown ones are new Readers
Match ==
    /\ pc = "built"
    /\ phase = "match"
    /\ knownFiles' = knownFiles \o SetToSeq(matched \ Range(knownFiles))
    /\ seenPaths' = seenPaths \cup matched
    /\ pending' = matched
    /\ phase' = "read"
    /\ UNCHANGED <<c, gate, pc, call, result, matched, open>>

\* the size of the next sub-batch
batchSize(maxBatchFiles, waiting) == Min(maxBatchFiles, waiting)

\* Batch-Read: once the previous sub-batch has finished, the next
\* sub-batch of waiting Readers is handed to workers, which open their files
BatchRead ==
    /\ pc = "built"
    /\ phase = "read"
    /\ open = {}
    /\ pending # {}
    /\ \E batch \in SUBSET pending :
        /\ Cardinality(batch) = batchSize(result.mgr.maxBatchFiles, Cardinality(pending))
        /\ open' = batch
        /\ pending' = pending \ batch
    /\ UNCHANGED <<c, gate, pc, call, result, phase, matched, knownFiles, seenPaths>>

\* a worker has read its file to the end and releases the handle
ReadToEnd ==
    /\ pc = "built"
    /\ phase = "read"
    /\ \E f \in open : open' = open \ {f}
    /\ UNCHANGED <<c, gate, pc, call, result, phase, matched, pending, knownFiles, seenPaths>>

\* Evict: Readers whose file was not rediscovered are closed; then sleep
Evict ==
    /\ pc = "built"
    /\ phase = "read"
    /\ open = {}
    /\ pending = {}
    /\ knownFiles' = SelectSeq(knownFiles, LAMBDA f : f \in matched)
    /\ matched' = {}
    /\ phase' = "sleep"
    /\ UNCHANGED <<c, gate, pc, call, result, pending, open, seenPaths>>

\* construction, over every configuration
Next ==
    \/ SetGate
    \/ Build
    \/ BuildWithSplitFunc

Spec == Init /\ [][Next]_vars

\* construction followed by the poll cycle of the Manager returned
PollNext ==
    \/ SetGate
    \/ Build
    \/ BuildWithSplitFunc
    \/ Discover
    \/ Match
    \/ BatchRead
    \/ ReadToEnd
    \/ Evict

PollSpec == PollInit /\ [][PollNext]_vars

\* ------------------------------------------------------------ the claims

Called == pc # "config"
Refused == result.mgr.isNil /\ result.err # NIL
Succeeded == ~result.mgr.isNil /\ result.err = NIL

\* the build-time conditions, stated on the arguments of the call
IncludeEmpty == call.cfg.Include = <<>>
IncludeUnparsable == \E i \in DOMAIN call.cfg.Include : call.cfg.Include[i] = BadPattern
ExcludeUnparsable == \E i \in DOMAIN call.cfg.Exclude : call.cfg.Exclude[i] = BadPattern
LogSizeNotPositive == ~(call.cfg.MaxLogSize > 0)
TooFewConcurrentFiles == ~(call.cfg.MaxConcurrentFiles > 1)
FingerprintBelowFloor == ~(call.cfg.FingerprintSize >= MinFingerprintSize)
DeleteWithEnd == call.cfg.DeleteAfterRead /\ call.cfg.StartAt = "end"
EncodingUnbuildable == ~call.cfg.EncodingOK
ConfigSplitterUnbuildable == ~call.cfg.MultilineOK
SuppliedSplitterUnbuildable == ~call.splitFunc \/ ~call.customOK
EmitNil == ~call.emit
StartAtUnrecognized == call.cfg.StartAt \notin {"beginning", "end"}
GateMissing == call.cfg.DeleteAfterRead /\ ~call.gate

\* C1 (as claimed): on both entry points, delete_after_read = true without the
\* feature gate enabled at the time of the call is refused: an error and no Manager.
C1_GateRefusesBothEntryPoints ==
    (Called /\ GateMissing) => Refused

\* C2: delete_after_read = true with start_at = "end" fails on both entry
\* points, whatever the other options and whatever the gate.
C2_DeleteWithEndFails ==
    (Called /\ DeleteWithEnd) => Refused

C2_Witness ==
    /\ call.entry = "BuildWithSplitFunc"
    /\ DeleteWithEnd
    /\ call.gate
    /\ result.err = "delete_after_read_start_at_end"
    /\ result.mgr.isNil

\* C3: fingerprint_size below MinFingerprintSize fails on both entry points,
\* and every Manager returned has fingerprintSize >= MinFingerprintSize.
C3_FingerprintFloor ==
    /\ (Called /\ FingerprintBelowFloor) => Refused
    /\ ~result.mgr.isNil => result.mgr.fingerprintSize >= MinFingerprintSize

C3_Witness ==
    /\ Called
    /\ call.cfg.FingerprintSize = MinFingerprintSize - 1
    /\ result.err = "fingerprint_size"
    /\ result.mgr.isNil

\* C4: every Manager returned with deleteAfterRead = true reads from the
\* beginning; delete_after_read with any start_at other than "beginning"
\* ("end" or an unrecognized value) returns no Manager.
C4_DeleteImpliesFromBeginning ==
    /\ (~result.mgr.isNil /\ result.mgr.deleteAfterRead) => result.mgr.fromBeginning
    /\ (Called /\ call.cfg.DeleteAfterRead /\ call.cfg.StartAt # "beginning") => result.mgr.isNil

C4_Witness ==
    /\ Called
    /\ call.cfg.DeleteAfterRead
    /\ call.cfg.StartAt = "middle"
    /\ result.err = "start_at"
    /\ result.mgr.isNil

\* C5 (as claimed): each listed condition, read off the configuration and the
\* emit callback, is by itself sufficient for Build and BuildWithSplitFunc to fail.
C5_EachListedConditionFails ==
    (Called /\ (\/ IncludeEmpty \/ IncludeUnparsable \/ ExcludeUnparsable
                \/ LogSizeNotPositive \/ TooFewConcurrentFiles
                \/ EncodingUnbuildable \/ ConfigSplitterUnbuildable
                \/ EmitNil \/ StartAtUnrecognized))
    => Refused

\* C5 (amended): each listed condition is by itself sufficient, where the
\* splitter that must be buildable is the one the entry point uses: the
\* configuration's for Build, the supplied split function for BuildWithSplitFunc.
C5_EachConditionFailsForSplitterInUse ==
    (Called /\ (\/ IncludeEmpty \/ IncludeUnparsable \/ ExcludeUnparsable
                \/ LogSizeNotPositive \/ TooFewConcurrentFiles
                \/ EncodingUnbuildable
                \/ (call.entry = "Build" /\ ConfigSplitterUnbuildable)
                \/ (call.entry = "BuildWithSplitFunc" /\ SuppliedSplitterUnbuildable)
                \/ EmitNil \/ StartAtUnrecognized))
    => Refused

C5_Witness ==
    /\ call.entry = "Build"
    /\ ConfigSplitterUnbuildable
    /\ ~EncodingUnbuildable
    /\ result.err = "splitter"
    /\ result.mgr.isNil

C7_MaxBatchFilesIsHalf ==
    ~result.mgr.isNil =>
        /\ 2 * result.mgr.maxBatchFiles <= call.cfg.MaxConcurrentFiles
        /\ call.cfg.MaxConcurrentFiles < 2 * result.mgr.maxBatchFiles + 2
        /\ result.mgr.maxBatchFiles >= 1

C7_Witness ==
    /\ ~result.mgr.isNil
    /\ call.cfg.MaxConcurrentFiles = 3
    /\ result.mgr.maxBatchFiles = 1

\* C8: Build on a configuration that violates none of the listed conditions,
\* with the gate enabled whenever delete_after_read is set, returns a Manager and no error.
C8_ValidConfigurationBuilds ==
    (/\ call.entry = "Build"
     /\ ~IncludeEmpty /\ ~IncludeUnparsable /\ ~ExcludeUnparsable
     /\ ~LogSizeNotPositive /\ ~TooFewConcurrentFiles /\ ~FingerprintBelowFloor
     /\ ~DeleteWithEnd /\ ~EncodingUnbuildable /\ ~ConfigSplitterUnbuildable
     /\ ~EmitNil /\ ~StartAtUnrecognized
     /\ ~GateMissing)
    => Succeeded

C8_Witness ==
    /\ call.entry = "Build"
    /\ call.cfg.DeleteAfterRead
    /\ call.gate
    /\ call.cfg.MaxConcurrentFiles = 2
    /\ Len(call.cfg.Exclude) > 0
    /\ Succeeded

\* the twelve checks of Build in the order claimed, and the error of each
BuildChecks ==
    << GateMissing, IncludeEmpty, IncludeUnparsable, ExcludeUnparsable,
       LogSizeNotPositive, TooFewConcurrentFiles, FingerprintBelowFloor,
       DeleteWithEnd, EncodingUnbuildable, ConfigSplitterUnbuildable,
       EmitNil, StartAtUnrecognized >>

BuildErrors ==
    << "gate", "include_empty", "include_glob", "exclude_glob",
       "max_log_size", "max_concurrent_files", "fingerprint_size",
       "delete_after_read_start_at_end", "encoding", "splitter",
       "emit", "start_at" >>

\* C9: Build returns the error of the first failing check in the fixed order
\* gate, include empty, include globs, exclude globs, max_log_size,
\* max_concurrent_files, fingerprint_size, delete with end, encoding, splitter,
\* emit, start_at; and no error when none fails.
C9_FirstFailingCheckReported ==
    call.entry = "Build" =>
        IF \E i \in DOMAIN BuildChecks : BuildChecks[i]
        THEN \E i \in DOMAIN BuildChecks :
                /\ BuildChecks[i]
                /\ \A j \in 1..(i - 1) : ~BuildChecks[j]
                /\ result.err = BuildErrors[i]
                /\ result.mgr.isNil
        ELSE result.err = NIL

C9_Witness ==
    /\ call.entry = "Build"
    /\ GateMissing
    /\ IncludeEmpty
    /\ FingerprintBelowFloor
    /\ StartAtUnrecognized
    /\ result.err = "gate"

\* C10: a call returns either a Manager and no error or an error and no
\* Manager; a returned Manager starts with empty knownFiles and seenPaths;
\* the Config the call was made on is unchanged.
C10_AllOrNothing ==
    Called =>
        /\ (Succeeded \/ Refused)
        /\ ~(Succeeded /\ Refused)
        /\ result.mgr.isNil => result.mgr = NilManager
        /\ ~result.mgr.isNil => (result.mgr.knownFiles = <<>> /\ result.mgr.seenPaths = {})
        /\ c = call.cfg

C10_Witness ==
    /\ call.entry = "BuildWithSplitFunc"
    /\ Succeeded
    /\ phase = "sleep"
    /\ knownFiles = <<>>
    /\ seenPaths = {}
    /\ c = call.cfg

====
